---------------------------- MODULE Spec2Model ----------------------------
(***************************************************************************)
(* Model of libsolidity/formal/SymbolicTypes.cpp: the translation of       *)
(* Solidity types to SMT sorts (smtSort, smtKind), the normalisation of    *)
(* number-like types (convertSolidityType), the symbolic variable factory  *)
(* (newSymbolicVariable) and the value installers (setSymbolicZeroValue,   *)
(* setSymbolicUnknownValue) that append assertions to the solver.          *)
(***************************************************************************)
EXTENDS Integers, Sequences, FiniteSets, TLC

VARIABLES
    arg,         \* the input handed to the translator / factory call
    call,        \* the last call made and what it returned
    assertions,  \* the solver's assertion log (SolverInterface::addAssertion)
    variable,    \* the symbolic variable the engine currently holds
    heap,        \* type object graph walked by the stepwise smtSort
    root,        \* the node smtSort was called on
    stack,       \* call stack of the stepwise smtSort (node ids)
    pc           \* position of the stepwise smtSort

vars == <<arg, call, assertions, variable, heap, root, stack, pc>>

-----------------------------------------------------------------------------
(* Bounds of the model *)

\* longest parameter / return type list of a function type, and longest
\* type vector handed to the vectorised smtSort
MaxArity == 2

\* deepest nesting of mapping / function types
MaxDepth == 2

\* longest assertion log the installers are driven to
MaxAssertions == 3

-----------------------------------------------------------------------------
(* Type objects (libsolidity/ast/Types.h), as far as this file reads them *)

\* IntegerType(bits, modifier)
IntegerTypeOf(bits, signed) ==
    [category |-> "Integer", bits |-> bits, signed |-> signed]

\* IntegerType(bits): the constructor's modifier defaults to Unsigned
IntegerType(bits) == IntegerTypeOf(bits, FALSE)

FixedBytesType(n) == [category |-> "FixedBytes", numBytes |-> n]

AddressType == [category |-> "Address"]

RationalNumberType(fractional) ==
    [category |-> "RationalNumber", isFractional |-> fractional]

BoolType == [category |-> "Bool"]

MappingType(k, v) == [category |-> "Mapping", keyType |-> k, valueType |-> v]

FunctionType(ps, rs) ==
    [category |-> "Function", parameterTypes |-> ps, returnParameterTypes |-> rs]

\* categories this file has no predicate for
OtherCategories == {"Struct", "Array", "Enum"}

OtherType(c) == [category |-> c]

\* a failed solAssert
ContractViolation == [kind |-> "ContractViolation"]

-----------------------------------------------------------------------------
(* Category taxonomy *)

isInteger(category) == category = "Integer"

isRational(category) == category = "RationalNumber"

isFixedBytes(category) == category = "FixedBytes"

isAddress(category) == category = "Address"

isNumber(category) ==
    \/ isInteger(category)
    \/ isRational(category)
    \/ isFixedBytes(category)
    \/ isAddress(category)

isBool(category) == category = "Bool"

isFunction(category) == category = "Function"

isMapping(category) == category = "Mapping"

isSupportedType_AllSupported(category) == TRUE

isSupportedType(category) ==
    \/ isNumber(category)
    \/ isBool(category)
    \/ isFunction(category)
    \/ isMapping(category)

-----------------------------------------------------------------------------
(* Sort translator *)

IntSort == [kind |-> "Int"]

BoolSort == [kind |-> "Bool"]

FunctionSort(domain, codomain) ==
    [kind |-> "Function", domain |-> domain, codomain |-> codomain]

ArraySort(domain, range) ==
    [kind |-> "Array", domain |-> domain, range |-> range]

\* a returned vector<SortPointer>
SortVector(sorts) == [kind |-> "Sorts", sorts |-> sorts]

smtKind_MappingAsInt(category) ==
    IF isNumber(category) THEN "Int"
    ELSE IF isBool(category) THEN "Bool"
    ELSE IF isFunction(category) THEN "Function"
    ELSE "Int"

smtKind(category) ==
    IF isNumber(category) THEN "Int"
    ELSE IF isBool(category) THEN "Bool"
    ELSE IF isMapping(category) THEN "Array"
    ELSE IF isFunction(category) THEN "Function"
    ELSE "Int"

RECURSIVE smtSort(_)
RECURSIVE smtSortTypes(_)

\* smtSort without the check on the number of return types: the first
\* return type is taken, and a function without return types gets sort Int
smtSort_FirstReturnTaken(type) ==
    LET kind == smtKind(type.category) IN
    IF kind = "Int" THEN IntSort
    ELSE IF kind = "Bool" THEN BoolSort
    ELSE IF kind = "Function" THEN
        LET parameterSorts == smtSortTypes(type.parameterTypes)
            returnTypes == type.returnParameterTypes
        IN  IF parameterSorts = ContractViolation THEN ContractViolation
            ELSE
                LET returnSort == IF returnTypes = <<>> THEN IntSort
                                  ELSE smtSort(returnTypes[1])
                IN  IF returnSort = ContractViolation THEN ContractViolation
                    ELSE FunctionSort(parameterSorts.sorts, returnSort)
    ELSE IF kind = "Array" /\ isMapping(type.category) THEN
        LET keySort == smtSort(type.keyType)
            valueSort == smtSort(type.valueType)
        IN  IF keySort = ContractViolation \/ valueSort = ContractViolation
            THEN ContractViolation
            ELSE ArraySort(keySort, valueSort)
    ELSE IntSort

\* smtSort(Type const&): a sort, or ContractViolation when a solAssert fails
smtSort(type) ==
    LET kind == smtKind(type.category) IN
    IF kind = "Int" THEN IntSort
    ELSE IF kind = "Bool" THEN BoolSort
    ELSE IF kind = "Function" THEN
        IF ~isFunction(type.category) THEN ContractViolation
        ELSE
            LET parameterSorts == smtSortTypes(type.parameterTypes)
                returnTypes == type.returnParameterTypes
            IN  IF parameterSorts = ContractViolation THEN ContractViolation
                ELSE IF Len(returnTypes) # 1 THEN ContractViolation
                ELSE
                    LET returnSort == smtSort(returnTypes[1]) IN
                    IF returnSort = ContractViolation THEN ContractViolation
                    ELSE FunctionSort(parameterSorts.sorts, returnSort)
    ELSE IF kind = "Array" /\ isMapping(type.category) THEN
        LET keySort == smtSort(type.keyType)
            valueSort == smtSort(type.valueType)
        IN  IF keySort = ContractViolation \/ valueSort = ContractViolation
            THEN ContractViolation
            ELSE ArraySort(keySort, valueSort)
    ELSE IntSort

\* smtSort(vector<TypePointer> const&)
smtSortTypes(types) ==
    IF types = <<>> THEN SortVector(<<>>)
    ELSE
        LET n == Len(types)
            front == smtSortTypes(SubSeq(types, 1, n - 1))
        IN  IF front = ContractViolation THEN ContractViolation
            ELSE
                LET last == smtSort(types[n]) IN
                IF last = ContractViolation THEN ContractViolation
                ELSE SortVector(Append(front.sorts, last))

-----------------------------------------------------------------------------
(* Type normaliser *)

convertSolidityType_RationalSigned(type) ==
    IF isAddress(type.category) THEN IntegerType(160)
    ELSE IF isFixedBytes(type.category) THEN IntegerType(type.numBytes * 8)
    ELSE IF isRational(type.category) THEN IntegerTypeOf(256, TRUE)
    ELSE type

convertSolidityType(type) ==
    IF isAddress(type.category) THEN IntegerType(160)
    ELSE IF isFixedBytes(type.category) THEN IntegerType(type.numBytes * 8)
    ELSE IF isRational(type.category) THEN IntegerType(256)
    ELSE type

-----------------------------------------------------------------------------
(* Arbitrary-precision integers (bigint): sign and magnitude, the magnitude *)
(* a little-endian sequence of base-256 limbs without leading zero limbs    *)

LimbBase == 256

BigZero == [neg |-> FALSE, mag |-> <<>>]

RECURSIVE StripZeros(_)
\* drop the most significant limbs that are zero
StripZeros(mag) ==
    IF mag = <<>> THEN <<>>
    ELSE IF mag[Len(mag)] = 0 THEN StripZeros(SubSeq(mag, 1, Len(mag) - 1))
    ELSE mag

\* bigint(1) << n
BigShiftOne(n) ==
    [neg |-> FALSE,
     mag |-> [i \in 1..((n \div 8) + 1) |->
                IF i = (n \div 8) + 1 THEN 2 ^ (n % 8) ELSE 0]]

RECURSIVE MagDecrement(_)
\* magnitude - 1, for a magnitude that is not zero
MagDecrement(mag) ==
    IF mag[1] > 0 THEN <<mag[1] - 1>> \o Tail(mag)
    ELSE <<LimbBase - 1>> \o MagDecrement(Tail(mag))

\* b - 1 for b > 0
BigMinusOne(b) == [neg |-> FALSE, mag |-> StripZeros(MagDecrement(b.mag))]

\* -b
BigNegate(b) == IF b.mag = <<>> THEN b ELSE [neg |-> ~b.neg, mag |-> b.mag]

\* IntegerType::minValue()
IntegerType_minValue(type) ==
    IF type.signed THEN BigNegate(BigShiftOne(type.bits - 1)) ELSE BigZero

\* IntegerType::maxValue()
IntegerType_maxValue(type) ==
    IF type.signed THEN BigMinusOne(BigShiftOne(type.bits - 1))
    ELSE BigMinusOne(BigShiftOne(type.bits))

-----------------------------------------------------------------------------
(* Solver expressions (smt::Expression) *)

IntLiteral(b) == [lit |-> "int", value |-> b]

BoolLiteral(b) == [lit |-> "bool", value |-> b]

\* _expr == rhs, _expr >= rhs, _expr <= rhs
Compare(op, lhs, rhs) == [op |-> op, lhs |-> lhs, rhs |-> rhs]

minValue(type) == IntLiteral(IntegerType_minValue(type))

maxValue(type) == IntLiteral(IntegerType_maxValue(type))

-----------------------------------------------------------------------------
(* Symbolic variables (libsolidity/formal/SymbolicVariables.h) *)

SymbolicIntVariable(type, uniqueName) ==
    [variant |-> "SymbolicIntVariable", type |-> type, uniqueName |-> uniqueName]

SymbolicBoolVariable(type, uniqueName) ==
    [variant |-> "SymbolicBoolVariable", type |-> type, uniqueName |-> uniqueName]

SymbolicFixedBytesVariable(numBytes, uniqueName) ==
    [variant |-> "SymbolicFixedBytesVariable", type |-> IntegerType(numBytes * 8),
     uniqueName |-> uniqueName, numBytes |-> numBytes]

SymbolicAddressVariable(uniqueName) ==
    [variant |-> "SymbolicAddressVariable", type |-> IntegerType(160),
     uniqueName |-> uniqueName]

SymbolicMappingVariable(type, uniqueName) ==
    [variant |-> "SymbolicMappingVariable", type |-> type, uniqueName |-> uniqueName]

\* SymbolicVariable::currentValue(): the solver symbol of the variable
currentValue(var) == [symbol |-> var.uniqueName]

\* the sort a variable is declared with in the solver
VariableSort(var) == smtSort(var.type)

-----------------------------------------------------------------------------
(* Symbolic variable factory *)

\* the pair<bool, shared_ptr<SymbolicVariable>> returned
Made(abstract, var) == [kind |-> "Made", abstract |-> abstract, var |-> var]

newSymbolicVariable(_type, _uniqueName) ==
    LET type == convertSolidityType(_type) IN
    IF ~isSupportedType(type.category) THEN
        Made(TRUE, SymbolicIntVariable(IntegerType(256), _uniqueName))
    ELSE IF isBool(_type.category) THEN
        Made(FALSE, SymbolicBoolVariable(type, _uniqueName))
    ELSE IF isFunction(type.category) THEN
        Made(FALSE, SymbolicIntVariable(IntegerType(256), _uniqueName))
    ELSE IF isInteger(type.category) THEN
        Made(FALSE, SymbolicIntVariable(type, _uniqueName))
    ELSE IF isFixedBytes(_type.category) THEN
        \* dynamic_cast<FixedBytesType const*>(type.get()) on the converted type
        IF isFixedBytes(type.category)
        THEN Made(FALSE, SymbolicFixedBytesVariable(type.numBytes, _uniqueName))
        ELSE ContractViolation
    ELSE IF isAddress(_type.category) THEN
        Made(FALSE, SymbolicAddressVariable(_uniqueName))
    ELSE IF isRational(_type.category) THEN
        IF _type.isFractional
        THEN Made(FALSE, SymbolicIntVariable(IntegerType(256), _uniqueName))
        ELSE Made(FALSE, SymbolicIntVariable(type, _uniqueName))
    ELSE IF isMapping(_type.category) THEN
        Made(FALSE, SymbolicMappingVariable(type, _uniqueName))
    ELSE ContractViolation

-----------------------------------------------------------------------------
(* Value installers: each returns the assertion log after the call *)

\* SolverInterface::addAssertion
addAssertion(log, expr) == Append(log, expr)

setSymbolicZeroValue_BoolSkipped(_expr, _type, log) ==
    IF isInteger(_type.category)
    THEN addAssertion(log, Compare("=", _expr, IntLiteral(BigZero)))
    ELSE log

\* setSymbolicZeroValue(Expression, TypePointer const&, SolverInterface&)
setSymbolicZeroValue(_expr, _type, log) ==
    IF isInteger(_type.category)
    THEN addAssertion(log, Compare("=", _expr, IntLiteral(BigZero)))
    ELSE IF isBool(_type.category)
    THEN addAssertion(log, Compare("=", _expr, BoolLiteral(FALSE)))
    ELSE log

\* setSymbolicZeroValue(SymbolicVariable const&, SolverInterface&)
setSymbolicZeroValueVar(_variable, log) ==
    setSymbolicZeroValue(currentValue(_variable), _variable.type, log)

setSymbolicUnknownValue_BoundsSwapped(_expr, _type, log) ==
    IF isInteger(_type.category)
    THEN addAssertion(addAssertion(log, Compare(">=", _expr, maxValue(_type))),
                      Compare("<=", _expr, minValue(_type)))
    ELSE log

\* setSymbolicUnknownValue(Expression, TypePointer const&, SolverInterface&)
setSymbolicUnknownValue(_expr, _type, log) ==
    IF isInteger(_type.category)
    THEN addAssertion(addAssertion(log, Compare(">=", _expr, minValue(_type))),
                      Compare("<=", _expr, maxValue(_type)))
    ELSE log

\* setSymbolicUnknownValue(SymbolicVariable const&, SolverInterface&)
setSymbolicUnknownValueVar(_variable, log) ==
    setSymbolicUnknownValue(currentValue(_variable), _variable.type, log)

-----------------------------------------------------------------------------
(* Inputs: the types and names the calls are driven with *)

SeqsUpTo(S, n) == UNION {[1..k -> S] : k \in 0..n}

IntegerWidths == {8, 16, 160, 256}

LeafTypes ==
    {IntegerTypeOf(w, s) : w \in IntegerWidths, s \in BOOLEAN}
    \cup {FixedBytesType(n) : n \in {1, 4, 32}}
    \cup {AddressType, BoolType}
    \cup {RationalNumberType(f) : f \in BOOLEAN}
    \cup {OtherType(c) : c \in OtherCategories}

\* types that occur inside mapping and function types
KeyTypes == {IntegerTypeOf(256, FALSE), AddressType}

ValueLeafTypes == {IntegerTypeOf(8, TRUE), BoolType, FixedBytesType(4), OtherType("Struct")}

ParamTypes == {IntegerTypeOf(256, FALSE), BoolType}

RECURSIVE CompoundTypes(_)
\* mapping and function types nested at most d deep
CompoundTypes(d) ==
    IF d = 0 THEN {}
    ELSE
        LET inner == CompoundTypes(d - 1) IN
        {MappingType(k, v) : k \in KeyTypes, v \in ValueLeafTypes \cup inner}
        \cup {FunctionType(ps, rs) :
                ps \in SeqsUpTo(ParamTypes, MaxArity), rs \in SeqsUpTo(ParamTypes, MaxArity)}
        \cup {FunctionType(<<p>>, <<c>>) : p \in ParamTypes, c \in inner}
        \cup {FunctionType(<<c>>, <<p>>) : p \in ParamTypes, c \in inner}

Types == LeafTypes \cup CompoundTypes(MaxDepth)

\* elements of the vectors handed to smtSort(vector<TypePointer>)
VectorTypes ==
    {IntegerTypeOf(8, FALSE), BoolType, OtherType("Array"),
     MappingType(AddressType, BoolType),
     FunctionType(<<BoolType>>, <<>>)}

TypeVectors == SeqsUpTo(VectorTypes, MaxArity)

Names == {"x", "y"}

Exprs == {[symbol |-> n] : n \in Names}

NoVariable == [variant |-> "none"]

Inputs ==
    {[kind |-> "type", type |-> t] : t \in Types}
    \cup {[kind |-> "types", types |-> ts] : ts \in TypeVectors}

-----------------------------------------------------------------------------
(* The calls the verification engine makes for one program value *)

\* no call is made after a solAssert has failed: the exception ends the pass
Running == ~call.aborted

Returned(op, result) ==
    [op |-> op, aborted |-> FALSE, result |-> result]

\* the record of a call that returns a sort, a variable or a violation
Outcome(op, result) ==
    [op |-> op, aborted |-> (result = ContractViolation), result |-> result]

Init ==
    /\ arg \in Inputs
    /\ call = [op |-> "none", aborted |-> FALSE]
    /\ assertions = <<>>
    /\ variable = NoVariable
    /\ heap = <<>>
    /\ root = 0
    /\ stack = <<>>
    /\ pc = "idle"

SmtKindCall ==
    /\ Running /\ arg.kind = "type"
    /\ call' = Returned("smtKind", smtKind(arg.type.category))
    /\ UNCHANGED <<arg, assertions, variable, heap, root, stack, pc>>

IsSupportedTypeCall ==
    /\ Running /\ arg.kind = "type"
    /\ call' = Returned("isSupportedType", isSupportedType(arg.type.category))
    /\ UNCHANGED <<arg, assertions, variable, heap, root, stack, pc>>

SmtSortCall ==
    /\ Running /\ arg.kind = "type"
    /\ call' = Outcome("smtSort", smtSort(arg.type))
    /\ UNCHANGED <<arg, assertions, variable, heap, root, stack, pc>>

SmtSortTypesCall ==
    /\ Running /\ arg.kind = "types"
    /\ call' = Outcome("smtSortTypes", smtSortTypes(arg.types))
    /\ UNCHANGED <<arg, assertions, variable, heap, root, stack, pc>>

ConvertSolidityTypeCall ==
    /\ Running /\ arg.kind = "type"
    /\ call' = Returned("convertSolidityType", convertSolidityType(arg.type))
    /\ UNCHANGED <<arg, assertions, variable, heap, root, stack, pc>>

NewSymbolicVariableCall ==
    /\ Running /\ arg.kind = "type"
    /\ \E name \in Names :
        /\ IF variable = NoVariable THEN TRUE ELSE variable.uniqueName # name
        /\ LET made == newSymbolicVariable(arg.type, name) IN
            /\ call' = Outcome("newSymbolicVariable", made)
            /\ variable' = IF made = ContractViolation THEN variable ELSE made.var
    /\ UNCHANGED <<arg, assertions, heap, root, stack, pc>>

SetSymbolicZeroValueCall ==
    /\ Running /\ arg.kind = "type"
    /\ Len(assertions) < MaxAssertions
    /\ \E expr \in Exprs :
        /\ assertions' = setSymbolicZeroValue(expr, arg.type, assertions)
        /\ call' = [op |-> "setSymbolicZeroValue", aborted |-> FALSE,
                    expr |-> expr, type |-> arg.type]
    /\ UNCHANGED <<arg, variable, heap, root, stack, pc>>

SetSymbolicZeroValueVarCall ==
    /\ Running /\ variable # NoVariable
    /\ Len(assertions) < MaxAssertions
    /\ assertions' = setSymbolicZeroValueVar(variable, assertions)
    /\ call' = [op |-> "setSymbolicZeroValueVar", aborted |-> FALSE,
                expr |-> currentValue(variable), type |-> variable.type]
    /\ UNCHANGED <<arg, variable, heap, root, stack, pc>>

SetSymbolicUnknownValueCall ==
    /\ Running /\ arg.kind = "type"
    /\ Len(assertions) + 2 <= MaxAssertions
    /\ \E expr \in Exprs :
        /\ assertions' = setSymbolicUnknownValue(expr, arg.type, assertions)
        /\ call' = [op |-> "setSymbolicUnknownValue", aborted |-> FALSE,
                    expr |-> expr, type |-> arg.type]
    /\ UNCHANGED <<arg, variable, heap, root, stack, pc>>

SetSymbolicUnknownValueVarCall ==
    /\ Running /\ variable # NoVariable
    /\ Len(assertions) + 2 <= MaxAssertions
    /\ assertions' = setSymbolicUnknownValueVar(variable, assertions)
    /\ call' = [op |-> "setSymbolicUnknownValueVar", aborted |-> FALSE,
                expr |-> currentValue(variable), type |-> variable.type]
    /\ UNCHANGED <<arg, variable, heap, root, stack, pc>>

\* the translator, the normaliser and the factory, over every input type
Next ==
    \/ SmtKindCall
    \/ IsSupportedTypeCall
    \/ SmtSortCall
    \/ SmtSortTypesCall
    \/ ConvertSolidityTypeCall
    \/ NewSymbolicVariableCall

Spec == Init /\ [][Next]_vars

\* types the value installers are driven with: every leaf type, a mapping
\* and a function
InstallTypes ==
    LeafTypes
    \cup {MappingType(IntegerTypeOf(256, FALSE), BoolType),
          FunctionType(<<IntegerTypeOf(256, FALSE)>>, <<BoolType>>)}

InitInstall ==
    /\ arg \in {[kind |-> "type", type |-> t] : t \in InstallTypes}
    /\ call = [op |-> "none", aborted |-> FALSE]
    /\ assertions = <<>>
    /\ variable = NoVariable
    /\ heap = <<>>
    /\ root = 0
    /\ stack = <<>>
    /\ pc = "idle"

\* the factory and the value installers, on one solver
NextInstall ==
    \/ NewSymbolicVariableCall
    \/ SetSymbolicZeroValueCall
    \/ SetSymbolicZeroValueVarCall
    \/ SetSymbolicUnknownValueCall
    \/ SetSymbolicUnknownValueVarCall

SpecInstall == InitInstall /\ [][NextInstall]_vars

-----------------------------------------------------------------------------
(* Properties of the factory *)

IsNewSymbolicVariable == call.op = "newSymbolicVariable"

\* C1: whenever newSymbolicVariable returns abstracted = false, the sort of
\* the returned variable equals smtSort of the original type; whenever it
\* returns abstracted = true, the variable's sort is Int.
C1_SortConsistency ==
    (IsNewSymbolicVariable /\ ~call.aborted) =>
        IF call.result.abstract
        THEN VariableSort(call.result.var) = IntSort
        ELSE VariableSort(call.result.var) = smtSort(arg.type)

\* C2: for a type of none of the seven supported categories the factory
\* raises no contract violation and returns abstracted = true with an
\* integer variable over a 256-bit integer type, of sort Int.
C2_AbstractionTotality ==
    (IsNewSymbolicVariable
        /\ arg.type.category \notin
            {"Integer", "Bool", "Function", "Mapping", "FixedBytes", "Address",
             "RationalNumber"}) =>
        /\ ~call.aborted
        /\ call.result # ContractViolation
        /\ call.result.abstract
        /\ call.result.var.variant = "SymbolicIntVariable"
        /\ call.result.var.type.category = "Integer"
        /\ call.result.var.type.bits = 256
        /\ VariableSort(call.result.var) = IntSort

C2_Witness ==
    /\ IsNewSymbolicVariable
    /\ arg.type = OtherType("Struct")
    /\ call.result.abstract
    /\ variable = SymbolicIntVariable(IntegerType(256), "x")

\* C3: for FixedBytes(n) the factory returns a fixed-bytes variable of byte
\* width n, and for Address an address variable, without a contract
\* violation and with abstracted = false.
C3_VariantFromOriginalCategory ==
    (IsNewSymbolicVariable /\ arg.type.category \in {"FixedBytes", "Address"}) =>
        /\ ~call.aborted
        /\ ~call.result.abstract
        /\ IF arg.type.category = "FixedBytes"
           THEN /\ call.result.var.variant = "SymbolicFixedBytesVariable"
                /\ call.result.var.numBytes = arg.type.numBytes
           ELSE call.result.var.variant = "SymbolicAddressVariable"

\* C4: a fractional RationalNumber is abstracted, an integer variable over
\* Integer(256) with abstracted = true; a non-fractional one gives an integer
\* variable over the normalised type with abstracted = false.
C4_FractionalRationalAbstracted ==
    (IsNewSymbolicVariable /\ arg.type.category = "RationalNumber") =>
        /\ ~call.aborted
        /\ call.result.var.variant = "SymbolicIntVariable"
        /\ call.result.var.type.category = "Integer"
        /\ call.result.var.type.bits = 256
        /\ call.result.abstract = arg.type.isFractional

-----------------------------------------------------------------------------
(* Properties of the normaliser *)

IsConvert == call.op = "convertSolidityType"

\* what convertSolidityType returns for the categories it leaves alone
ConvertKeepsOthers ==
    (IsConvert
        /\ arg.type.category \notin {"Address", "FixedBytes", "RationalNumber"}) =>
        call.result = arg.type

\* C5 as stated: Address gives an unsigned Integer of width 160, FixedBytes(n)
\* an unsigned Integer of width 8*n, RationalNumber a signed Integer of width
\* 256, every other type is returned unchanged; the signedness for
\* RationalNumber differs from the one for Address and FixedBytes.
C5_RationalSigned ==
    /\ ConvertKeepsOthers
    /\ (IsConvert /\ arg.type.category = "Address") =>
            call.result = [category |-> "Integer", bits |-> 160, signed |-> FALSE]
    /\ (IsConvert /\ arg.type.category = "FixedBytes") =>
            call.result = [category |-> "Integer", bits |-> 8 * arg.type.numBytes,
                           signed |-> FALSE]
    /\ (IsConvert /\ arg.type.category = "RationalNumber") =>
            call.result = [category |-> "Integer", bits |-> 256, signed |-> TRUE]

\* C5 amended: as C5, but RationalNumber (fractional or not) gives an Integer
\* of width 256 with the same signedness as the one for Address and
\* FixedBytes, which is unsigned.
C5_RationalLikeAddress ==
    /\ ConvertKeepsOthers
    /\ (IsConvert /\ arg.type.category = "Address") =>
            call.result = [category |-> "Integer", bits |-> 160, signed |-> FALSE]
    /\ (IsConvert /\ arg.type.category = "FixedBytes") =>
            call.result = [category |-> "Integer", bits |-> 8 * arg.type.numBytes,
                           signed |-> FALSE]
    /\ (IsConvert /\ arg.type.category = "RationalNumber") =>
            call.result = [category |-> "Integer", bits |-> 256, signed |-> FALSE]

C5_Witness ==
    /\ IsConvert
    /\ arg.type = RationalNumberType(TRUE)
    /\ call.result.bits = 256

-----------------------------------------------------------------------------
(* Properties of the sort translator *)

IsSmtSort == call.op = "smtSort"

\* the specified sort of a type that is neither a mapping nor a function
LeafSort(type) == IF type.category = "Bool" THEN BoolSort ELSE IntSort

IsLeaf(type) == type.category \notin {"Mapping", "Function"}

\* C6: smtSort(Mapping(K, V)) = Array(smtSort(K), smtSort(V)) at every
\* nesting depth, where a leaf of a number category or of an unsupported
\* category has sort Int and a Bool leaf has sort Bool (a contract violation
\* raised for K or V is raised for the mapping).
C6_MappingRecursion ==
    /\ (IsSmtSort /\ IsLeaf(arg.type)) => call.result = LeafSort(arg.type)
    /\ (IsSmtSort /\ arg.type.category = "Mapping") =>
        LET keySort == smtSort(arg.type.keyType)
            valueSort == smtSort(arg.type.valueType)
        IN  IF keySort = ContractViolation \/ valueSort = ContractViolation
            THEN call.aborted /\ call.result = ContractViolation
            ELSE /\ ~call.aborted
                 /\ call.result = [kind |-> "Array", domain |-> keySort, range |-> valueSort]
                 /\ IsLeaf(arg.type.keyType) =>
                        call.result.domain = LeafSort(arg.type.keyType)
                 /\ IsLeaf(arg.type.valueType) =>
                        call.result.range = LeafSort(arg.type.valueType)

C6_Witness ==
    /\ IsSmtSort
    /\ arg.type = MappingType(IntegerTypeOf(256, FALSE), MappingType(AddressType, BoolType))
    /\ call.result = ArraySort(IntSort, ArraySort(IntSort, BoolSort))

\* the contract violations raised while sorting the types of a list
AnyViolation(types) == \E i \in 1..Len(types) : smtSort(types[i]) = ContractViolation

\* C7: for a function type with exactly one return type r, smtSort returns
\* Function(params, smtSort(r)) with params the element-wise sorts of the
\* parameter types, in order; with any other number of return types it
\* raises a contract violation and returns no sort.
C7_FunctionSort ==
    (IsSmtSort /\ arg.type.category = "Function") =>
        LET P == arg.type.parameterTypes
            R == arg.type.returnParameterTypes
        IN  IF Len(R) # 1 \/ AnyViolation(P) \/ AnyViolation(R)
            THEN call.aborted /\ call.result = ContractViolation
            ELSE /\ ~call.aborted
                 /\ call.result.kind = "Function"
                 /\ Len(call.result.domain) = Len(P)
                 /\ \A i \in 1..Len(P) : call.result.domain[i] = smtSort(P[i])
                 /\ call.result.codomain = smtSort(R[1])

C7_Witness ==
    /\ IsSmtSort
    /\ arg.type = FunctionType(<<IntegerTypeOf(256, FALSE)>>,
                               <<IntegerTypeOf(256, FALSE), BoolType>>)
    /\ call.aborted

\* a function type with one return type gets its structural sort
C7_ReturnsSort ==
    /\ IsSmtSort
    /\ arg.type = FunctionType(<<IntegerTypeOf(256, FALSE), BoolType>>, <<BoolType>>)
    /\ call.result = FunctionSort(<<IntSort, BoolSort>>, BoolSort)

-----------------------------------------------------------------------------
(* Properties of the value installers *)

RECURSIVE MagDouble(_, _)
\* 2 * magnitude + carry
MagDouble(mag, carry) ==
    IF mag = <<>> THEN (IF carry = 0 THEN <<>> ELSE <<carry>>)
    ELSE LET d == 2 * mag[1] + carry IN
         <<d % 256>> \o MagDouble(Tail(mag), d \div 256)

RECURSIVE TwoToThe(_)
\* the magnitude of 2^n: 256 * 2^(n-8) is a limb to the left, else a doubling
TwoToThe(n) ==
    IF n = 0 THEN <<1>>
    ELSE IF n % 8 = 0 THEN <<0>> \o TwoToThe(n - 8)
    ELSE MagDouble(TwoToThe(n - 1), 0)

RECURSIVE MagIncrement(_)
\* magnitude + 1
MagIncrement(mag) ==
    IF mag = <<>> THEN <<1>>
    ELSE IF mag[1] < 255 THEN <<mag[1] + 1>> \o Tail(mag)
    ELSE <<0>> \o MagIncrement(Tail(mag))

\* lo is 0 for an unsigned type and -2^(n-1) for a signed type of width n
IsLowerBound(lo, type) ==
    IF type.signed THEN lo = [neg |-> TRUE, mag |-> TwoToThe(type.bits - 1)]
    ELSE lo = [neg |-> FALSE, mag |-> <<>>]

\* hi is 2^n - 1 for an unsigned type and 2^(n-1) - 1 for a signed type
IsUpperBound(hi, type) ==
    /\ ~hi.neg
    /\ MagIncrement(hi.mag) = TwoToThe(IF type.signed THEN type.bits - 1 ELSE type.bits)

IsUnknownValueCall(c) ==
    c.op \in {"setSymbolicUnknownValue", "setSymbolicUnknownValueVar"}

IsPrefix(s, t) == Len(s) <= Len(t) /\ SubSeq(t, 1, Len(s)) = s

\* C8: for an Integer type of width n, setSymbolicUnknownValue adds exactly
\* expr >= lo and expr <= hi, with [lo, hi] = [0, 2^n - 1] when unsigned and
\* [-2^(n-1), 2^(n-1) - 1] when signed, so lo <= 0 <= hi; for a type of any
\* other category it adds no assertion.
C8_UnknownValueRange ==
    [][IsUnknownValueCall(call') =>
        IF call'.type.category = "Integer"
        THEN /\ Len(assertions') = Len(assertions) + 2
             /\ IsPrefix(assertions, assertions')
             /\ LET ge == assertions'[Len(assertions) + 1]
                    le == assertions'[Len(assertions) + 2]
                IN  /\ ge.op = ">=" /\ ge.lhs = call'.expr /\ ge.rhs.lit = "int"
                    /\ le.op = "<=" /\ le.lhs = call'.expr /\ le.rhs.lit = "int"
                    /\ IsLowerBound(ge.rhs.value, call'.type)
                    /\ IsUpperBound(le.rhs.value, call'.type)
                    /\ (ge.rhs.value.neg \/ ge.rhs.value.mag = <<>>)
                    /\ ~le.rhs.value.neg
        ELSE assertions' = assertions
    ]_vars

C8_Witness ==
    /\ call.op = "setSymbolicUnknownValue"
    /\ call.type = IntegerTypeOf(256, TRUE)
    /\ Len(assertions) = 2
    /\ assertions[1].rhs.value.neg
    /\ Len(assertions[2].rhs.value.mag) = 32

\* the specified effect of setSymbolicZeroValue on the log
ZeroValueEffect(expr, type, log) ==
    IF type.category = "Integer"
    THEN log \o <<[op |-> "=", lhs |-> expr,
                   rhs |-> [lit |-> "int", value |-> [neg |-> FALSE, mag |-> <<>>]]]>>
    ELSE IF type.category = "Bool"
    THEN log \o <<[op |-> "=", lhs |-> expr, rhs |-> [lit |-> "bool", value |-> FALSE]]>>
    ELSE log

\* C9: the installers only append to the assertion log; setSymbolicZeroValue
\* appends exactly expr = 0 for an Integer type, exactly expr = false for a
\* Bool type and nothing for any other category; the variable-level forms
\* act as the expression-level forms on (variable.currentValue, variable.type).
C9_AppendOnly ==
    [][/\ IsPrefix(assertions, assertions')
       /\ call'.op = "setSymbolicZeroValue" =>
            assertions' = ZeroValueEffect(call'.expr, call'.type, assertions)
       /\ call'.op = "setSymbolicZeroValueVar" =>
            assertions' = ZeroValueEffect([symbol |-> variable.uniqueName],
                                          variable.type, assertions)
       /\ call'.op = "setSymbolicUnknownValueVar" =>
            assertions' = setSymbolicUnknownValue([symbol |-> variable.uniqueName],
                                                  variable.type, assertions)
    ]_vars

C9_Witness ==
    /\ call.op = "setSymbolicZeroValueVar"
    /\ variable = SymbolicBoolVariable(BoolType, "y")
    /\ Len(assertions) = 3
    /\ assertions[3] = Compare("=", [symbol |-> "y"], BoolLiteral(FALSE))
    /\ assertions[1] = Compare("=", [symbol |-> "x"], BoolLiteral(FALSE))

-----------------------------------------------------------------------------
(* smtSort call by call, on a graph of type objects.  A type object refers  *)
(* to its key, value, parameter and return types through pointers; nothing  *)
(* in smtSort looks at the objects it is already working on.                *)

\* type objects in a graph
NumNodes == 2

\* calls the call stack holds; deeper than any tree of NumNodes objects
StackLimit == NumNodes + 2

NodeIds == 1..NumNodes

\* a type object whose component types are pointers (node ids)
TypeObjects ==
    {[category |-> c] : c \in {"Integer", "Bool", "Struct"}}
    \cup {[category |-> "Mapping", keyType |-> k, valueType |-> v] :
            k \in NodeIds, v \in NodeIds}
    \cup {[category |-> "Function", parameterTypes |-> ps, returnParameterTypes |-> rs] :
            ps \in SeqsUpTo(NodeIds, 1), rs \in SeqsUpTo(NodeIds, 2)}

Pending == [kind |-> "Pending"]

\* the types smtSort recurses into, in the order of the source: the
\* parameter types then the return type, or the key type and the value type
Components(object) ==
    IF smtKind(object.category) = "Function"
    THEN object.parameterTypes \o
            (IF Len(object.returnParameterTypes) = 1
             THEN object.returnParameterTypes ELSE <<>>)
    ELSE IF smtKind(object.category) = "Array" /\ isMapping(object.category)
    THEN <<object.keyType, object.valueType>>
    ELSE <<>>

Frame(node) ==
    [node |-> node, waiting |-> 0,
     sorts |-> [i \in 1..Len(Components(heap[node])) |-> Pending]]

Top == stack[Len(stack)]

\* the slots of the top call whose sort is not computed yet
PendingSlots == {i \in DOMAIN Top.sorts : Top.sorts[i] = Pending}

\* the slots the top call may compute next: the parameter sorts are computed
\* in order and before the return sort; the order of the two arguments of
\* make_shared<ArraySort>(smtSort(key), smtSort(value)) is the compiler's
NextSlots ==
    IF PendingSlots = {} THEN {}
    ELSE IF isMapping(heap[Top.node].category) THEN PendingSlots
    ELSE {CHOOSE i \in PendingSlots : \A j \in PendingSlots : i <= j}

\* solAssert(returnTypes.size() == 1) is reached once the parameter sorts are there
ReturnCountChecked ==
    LET object == heap[Top.node] IN
    /\ smtKind(object.category) = "Function"
    /\ \A i \in 1..Len(object.parameterTypes) : Top.sorts[i] # Pending

\* the sort the top call returns once its component sorts are there
TopSort ==
    LET object == heap[Top.node]
        kind == smtKind(object.category)
    IN  IF kind = "Int" THEN IntSort
        ELSE IF kind = "Bool" THEN BoolSort
        ELSE IF kind = "Function"
        THEN FunctionSort(SubSeq(Top.sorts, 1, Len(object.parameterTypes)),
                          Top.sorts[Len(Top.sorts)])
        ELSE IF kind = "Array" /\ isMapping(object.category)
        THEN ArraySort(Top.sorts[1], Top.sorts[2])
        ELSE IntSort

InitGraph ==
    /\ arg = [kind |-> "graph"]
    /\ call = [op |-> "none", aborted |-> FALSE]
    /\ assertions = <<>>
    /\ variable = NoVariable
    /\ heap \in [NodeIds -> TypeObjects]
    /\ root \in NodeIds
    /\ stack = <<>>
    /\ pc = "idle"

\* smtSort(*root) is called
GraphCall ==
    /\ pc = "idle"
    /\ stack' = <<Frame(root)>>
    /\ pc' = "running"
    /\ UNCHANGED <<arg, call, assertions, variable, heap, root>>

\* the top call calls smtSort on one of its component types
GraphRecurse ==
    /\ pc = "running"
    /\ ~(ReturnCountChecked /\ Len(heap[Top.node].returnParameterTypes) # 1)
    /\ Len(stack) < StackLimit
    /\ \E i \in NextSlots :
        stack' = Append([stack EXCEPT ![Len(stack)].waiting = i],
                        Frame(Components(heap[Top.node])[i]))
    /\ UNCHANGED <<arg, call, assertions, variable, heap, root, pc>>

\* the same call with no room left on the call stack
GraphStackOverflow ==
    /\ pc = "running"
    /\ ~(ReturnCountChecked /\ Len(heap[Top.node].returnParameterTypes) # 1)
    /\ Len(stack) = StackLimit
    /\ NextSlots # {}
    /\ pc' = "stack_overflow"
    /\ UNCHANGED <<arg, call, assertions, variable, heap, root, stack>>

\* solAssert(returnTypes.size() == 1) fails: the exception leaves every call
GraphViolation ==
    /\ pc = "running"
    /\ ReturnCountChecked /\ Len(heap[Top.node].returnParameterTypes) # 1
    /\ stack' = <<>>
    /\ pc' = "violation"
    /\ call' = Outcome("smtSort", ContractViolation)
    /\ UNCHANGED <<arg, assertions, variable, heap, root>>

\* the top call returns its sort to its caller
GraphReturn ==
    /\ pc = "running"
    /\ ~(ReturnCountChecked /\ Len(heap[Top.node].returnParameterTypes) # 1)
    /\ PendingSlots = {}
    /\ IF Len(stack) = 1
       THEN /\ stack' = <<>>
            /\ pc' = "returned"
            /\ call' = Outcome("smtSort", TopSort)
       ELSE /\ LET caller == stack[Len(stack) - 1] IN
                stack' = [SubSeq(stack, 1, Len(stack) - 1) EXCEPT
                            ![Len(stack) - 1].sorts[caller.waiting] = TopSort,
                            ![Len(stack) - 1].waiting = 0]
            /\ UNCHANGED <<pc, call>>
    /\ UNCHANGED <<arg, assertions, variable, heap, root>>

NextGraph ==
    \/ GraphCall
    \/ GraphRecurse
    \/ GraphStackOverflow
    \/ GraphViolation
    \/ GraphReturn

SpecGraph == InitGraph /\ [][NextGraph]_vars

-----------------------------------------------------------------------------
(* Properties of the recursion of smtSort *)

\* the type objects the call on an object recurses into
Edges(n) == {Components(heap[n])[i] : i \in 1..Len(Components(heap[n]))}

RECURSIVE ReachIn(_, _)
ReachIn(S, k) ==
    IF k = 0 THEN S ELSE ReachIn(S \cup UNION {Edges(n) : n \in S}, k - 1)

Descendants(n) == ReachIn(Edges(n), NumNodes)

\* the type graph under the object reaches one of its objects again
SelfReferential(n) == \E m \in {n} \cup Descendants(n) : m \in Descendants(m)

RECURSIVE TreeOf(_)
\* the type a finite tree of type objects stands for (of a return type list
\* that is not of length one smtSort reads the length only)
TreeOf(n) ==
    LET object == heap[n] IN
    IF object.category = "Mapping"
    THEN MappingType(TreeOf(object.keyType), TreeOf(object.valueType))
    ELSE IF object.category = "Function"
    THEN FunctionType(
            [i \in 1..Len(object.parameterTypes) |-> TreeOf(object.parameterTypes[i])],
            IF Len(object.returnParameterTypes) = 1
            THEN <<TreeOf(object.returnParameterTypes[1])>>
            ELSE [i \in 1..Len(object.returnParameterTypes) |-> BoolType])
    ELSE object

\* on a finite tree the calls never exhaust the stack, no object is worked on
\* twice at once, and what the call returns is smtSort of the tree
TreesAreSorted ==
    ~SelfReferential(root) =>
        /\ pc # "stack_overflow"
        /\ \A i, j \in 1..Len(stack) : i # j => stack[i].node # stack[j].node
        /\ pc \in {"returned", "violation"} => call.result = smtSort(TreeOf(root))

\* on a finite tree the call is never stuck: it has ended or can go on
TreesGoOn ==
    ~SelfReferential(root) => (pc \in {"returned", "violation"} \/ ENABLED NextGraph)

\* C10: smtSort never recurses without bound: on every type graph, a
\* self-referential one included, the call ends with a sort or with an
\* explicit error and never exhausts the call stack.
C10_RecursionGuarded == pc # "stack_overflow"

=============================================================================
